---- MODULE Spec2Model ----
(***************************************************************************)
(* Model of badges.py: the sequence validator (validate_input), the        *)
(* sequence interpreter (process_badges), the preset operations            *)
(* (list_presets, delete_presets, save_preset) and the driver (main and    *)
(* the __main__ block).                                                    *)
(*                                                                         *)
(* A Python string is a sequence of one-character strings, so that find,   *)
(* removeprefix, strip and lower are computed and not assumed.  A chat     *)
(* message is the concatenation of the pieces of a command template.       *)
(* None and "" are both falsy and are never told apart by main, so an      *)
(* absent string option is the empty sequence and an absent preset name is *)
(* NoName.                                                                 *)
(***************************************************************************)
EXTENDS Integers, Sequences, FiniteSets, TLC

\* ------------------------------------------------------------------ bounds
\* Longest positional sequence string enumerated (besides Example).
MaxLen == 3
\* Longest sequence string found under a preset name in config.json.
MaxStoredLen == 2
\* Longest list of names given to --delete.
MaxDelete == 2

\* --------------------------------------------------------------- constants
REFUND_CHAR == "!"

\* str.isdigit on one ASCII character.
Digits == {"0", "1", "2", "3", "4", "5", "6", "7", "8", "9"}

\* The placeholder of the refund template, filled in by str.format.
Placeholder == "{user_id}"

\* The command table: each template is the list of its pieces.
COMMANDS ==
    [c \in {REFUND_CHAR, "b", "i", "g", "a", "r", "e"} |->
        CASE c = REFUND_CHAR -> <<"kakerarefund ", Placeholder>>
          [] c = "b" -> <<"bronze">>
          [] c = "i" -> <<"silver">>
          [] c = "g" -> <<"gold">>
          [] c = "a" -> <<"sapphire">>
          [] c = "r" -> <<"ruby">>
          [] c = "e" -> <<"emerald">>]

\* Config.timeout when config.json does not set it.
DefaultTimeout == 1

\* ------------------------------------------------------------ input sets
StrsUpTo(S, n) == UNION {[1..k -> S] : k \in 0..n}

\* Characters of the enumerated positional sequences: the refund marker, a
\* badge key, a digit and a character that is neither.
InputChars == {REFUND_CHAR, "b", "2", "x"}
\* Characters of the sequences found in config.json.
StoredChars == {REFUND_CHAR, "b"}
\* The example of the help text (without its leading option dash).
Example == <<"b", "2", "i", "2", "g", "2", "r", "4", "i", "4">>

ArgSeqs == StrsUpTo(InputChars, MaxLen) \cup {Example}
StoredSeqs == StrsUpTo(StoredChars, MaxStoredLen)
Names == {"foo", "bar"}
NoName == ""
\* -t absent (or 0.0, equally falsy) and -t 2.
ArgTimeouts == {0, 2}
UserIds == {"U", "42"}
DeleteLists == StrsUpTo(Names, MaxDelete) \ {<<>>}
\* Replies typed at the overwrite prompt.
Answers == {<<>>, <<"y">>, <<"Y">>, <<" ", "y", " ">>, <<"n">>, <<"y", "e", "s">>}
\* The contents config.json can have for "presets".
Configs == UNION {[D -> StoredSeqs] : D \in SUBSET Names}

\* ------------------------------------------------------- string functions
Range(s) == {s[k] : k \in 1..Len(s)}

\* str.find(c): 0-based index of the first occurrence, -1 when there is none.
Find(s, c) ==
    IF c \in Range(s)
    THEN (CHOOSE k \in 1..Len(s) : s[k] = c /\ \A j \in 1..(k - 1) : s[j] # c) - 1
    ELSE -1

\* str.removeprefix for a one-character prefix.
RemovePrefix(s, c) == IF Len(s) > 0 /\ s[1] = c THEN Tail(s) ELSE s

RECURSIVE LStrip(_)
LStrip(s) == IF Len(s) > 0 /\ s[1] = " " THEN LStrip(Tail(s)) ELSE s

RECURSIVE RStrip(_)
RStrip(s) ==
    IF Len(s) > 0 /\ s[Len(s)] = " " THEN RStrip(SubSeq(s, 1, Len(s) - 1)) ELSE s

\* str.strip on the replies of Answers (blanks are their only whitespace).
Strip(s) == RStrip(LStrip(s))

LowerChar(c) == CASE c = "Y" -> "y" [] c = "N" -> "n" [] OTHER -> c
\* str.lower.
Lower(s) == [k \in 1..Len(s) |-> LowerChar(s[k])]

\* "".join(pieces)
RECURSIVE Join(_)
Join(pieces) == IF pieces = <<>> THEN "" ELSE pieces[1] \o Join(Tail(pieces))

FormatNoSubstitution(pieces, user) == Join(pieces)

\* "...".format(user_id=user): every placeholder piece becomes the user id.
Format(pieces, user) ==
    Join([k \in 1..Len(pieces) |->
            IF pieces[k] = Placeholder THEN user ELSE pieces[k]])

\* ---------------------------------------------------------- validate_input
validate_input(string) ==
    /\ Find(string, REFUND_CHAR) <= 0
    /\ \A k \in 1..Len(string) :
          string[k] \in Digits \/ string[k] \in DOMAIN COMMANDS

\* ---------------------------------------------------------- delete_presets
\* The for loop: the store and not_found after names[k..].
RECURSIVE DeleteLoop(_, _, _, _)
DeleteLoop(store, names, k, not_found) ==
    IF k > Len(names) THEN [presets |-> store, not_found |-> not_found]
    ELSE IF names[k] \in DOMAIN store
         THEN DeleteLoop([n \in DOMAIN store \ {names[k]} |-> store[n]],
                         names, k + 1, not_found)
         ELSE DeleteLoop(store, names, k + 1, Append(not_found, names[k]))

DeleteWritesAlways(not_found) == TRUE

\* The match statement: config.to_file() is in the `case []` arm only.
DeleteWrites(not_found) == not_found = <<>>

\* ------------------------------------------------------------------- state
VARIABLES
    pc,        \* where the process is
    args,      \* the Args namespace, as far as main has read it
    presets,   \* config.presets, in memory
    file,      \* the "presets" object of config.json on disk
    writes,    \* number of Config.to_file calls
    prompts,   \* number of input() calls
    answer,    \* the last reply input() returned
    out,       \* the last report printed
    valid,     \* the result of validate_input at line 166
    sequence,  \* main's `sequence`, process_badges' `seq`
    timeout,   \* process_badges' `timeout`
    user_id,   \* decoded from config.token
    i,         \* process_badges' index (0-based)
    command,   \* process_badges' `command`, as template pieces
    log,       \* what the transport and the clock were asked to do, in order
    ret,       \* main's return value
    raised,    \* the exception propagating, if any
    exitCode   \* the process's exit status, -1 while it runs

vars == <<pc, args, presets, file, writes, prompts, answer, out, valid, sequence,
          timeout, user_id, i, command, log, ret, raised, exitCode>>

\* argparse's defaults.
NoArgs ==
    [list_presets |-> FALSE, delete |-> <<>>, sequence |-> <<>>,
     preset |-> NoName, skip_refund |-> FALSE, timeout |-> 0]

Report(msg, names, listing) == [msg |-> msg, names |-> names, listing |-> listing]
Say(msg) == Report(msg, <<>>, {})

\* One session.post("/messages", ...): `ok` is FALSE when the call raised.
Post(content, ok) == [op |-> "send", content |-> content, secs |-> 0, ok |-> ok]
\* One sleep(secs).
Sleep(secs) == [op |-> "sleep", content |-> "", secs |-> secs, ok |-> TRUE]

\* The state when main is entered: config.json has been written by hand, its
\* presets are whatever strings it holds (Config.from_file checks nothing).
Init ==
    /\ pc = "main"
    /\ args = NoArgs
    /\ presets \in Configs
    /\ file = presets
    /\ writes = 0
    /\ prompts = 0
    /\ answer = <<>>
    /\ out = Say("")
    /\ valid = "unchecked"
    /\ sequence = <<>>
    /\ timeout = 0
    /\ user_id \in UserIds
    /\ i = 0
    /\ command = <<>>
    /\ log = <<>>
    /\ ret = FALSE
    /\ raised = "none"
    /\ exitCode = -1

\* main returns r after printing report o; nothing else changes.
Return(r, o) ==
    /\ pc' = "returned"
    /\ ret' = r
    /\ out' = o

\* ------------------------------------------------------------- parse_args
\* No argument at all: argparse is given --help, prints it and exits 0.
ShowHelp ==
    /\ pc = "main"
    /\ pc' = "exit"
    /\ exitCode' = 0
    /\ out' = Say("usage")
    /\ UNCHANGED <<answer, args, presets, file, writes, prompts, valid, sequence,
                   timeout, user_id, i, command, log, ret, raised>>

\* None of -l, -d, sequence, -p: parser.error exits with status 2.
ParseError ==
    /\ pc = "main"
    /\ \E s \in BOOLEAN, t \in ArgTimeouts :
          /\ s \/ t # 0
          /\ args' = [NoArgs EXCEPT !.skip_refund = s, !.timeout = t]
    /\ pc' = "exit"
    /\ exitCode' = 2
    /\ out' = Say("at least one of the following arguments are required")
    /\ UNCHANGED <<answer, presets, file, writes, prompts, valid, sequence, timeout,
                   user_id, i, command, log, ret, raised>>

\* ------------------------------------------------------------------- main
\* -l: list_presets, return True.  No other option is read on this path.
MainList ==
    /\ pc = "main"
    /\ args' = [NoArgs EXCEPT !.list_presets = TRUE]
    /\ Return(TRUE,
              IF DOMAIN presets = {}
              THEN Say("No saved presets.")
              ELSE Report("Saved presets:", <<>>,
                          {<<n, presets[n]>> : n \in DOMAIN presets}))
    /\ UNCHANGED <<answer, presets, file, writes, prompts, valid, sequence, timeout,
                   user_id, i, command, log, raised, exitCode>>

\* -d NAME...: return delete_presets(config, args.delete).
MainDelete ==
    /\ pc = "main"
    /\ \E names \in DeleteLists :
          LET r == DeleteLoop(presets, names, 1, <<>>) IN
          /\ args' = [NoArgs EXCEPT !.delete = names]
          /\ presets' = r.presets
          /\ file' = IF DeleteWrites(r.not_found) THEN r.presets ELSE file
          /\ writes' = IF DeleteWrites(r.not_found) THEN writes + 1 ELSE writes
          /\ Return(r.not_found = <<>>,
                    IF r.not_found = <<>>
                    THEN Report("Deleted", names, {})
                    ELSE Report("does not exist", r.not_found, {}))
    /\ UNCHANGED <<answer, prompts, valid, sequence, timeout, user_id, i, command,
                   log, raised, exitCode>>

\* A positional sequence that validate_input rejects.
MainInvalid ==
    /\ pc = "main"
    /\ \E s \in ArgSeqs \ {<<>>} :
          /\ ~validate_input(s)
          /\ args' = [NoArgs EXCEPT !.sequence = s]
          /\ sequence' = s
    /\ valid' = "rejected"
    /\ Return(FALSE, Say("Invalid sequence."))
    /\ UNCHANGED <<answer, presets, file, writes, prompts, timeout, user_id, i,
                   command, log, raised, exitCode>>

\* config.presets.get(name): None, or a falsy "", count as nothing.
Get(store, name) == IF name \in DOMAIN store THEN store[name] ELSE <<>>

\* The three last lines of save_preset.
Store(name, seq) ==
    /\ presets' = [n \in DOMAIN presets \cup {name} |->
                      IF n = name THEN seq ELSE presets[n]]
    /\ file' = presets'
    /\ writes' = writes + 1
    /\ Return(TRUE, Report("saved", <<name>>, {}))

\* A valid positional sequence and -p NAME: save_preset asks first when
\* config.presets.get(NAME) is truthy.
MainSavePrompt ==
    /\ pc = "main"
    /\ \E s \in ArgSeqs \ {<<>>}, p \in Names :
          /\ validate_input(s)
          /\ Get(presets, p) # <<>>
          /\ args' = [NoArgs EXCEPT !.sequence = s, !.preset = p]
          /\ sequence' = s
    /\ valid' = "accepted"
    /\ prompts' = prompts + 1
    /\ pc' = "prompt"
    /\ UNCHANGED <<answer, presets, file, writes, out, timeout, user_id, i, command,
                   log, ret, raised, exitCode>>

\* The same with nothing truthy stored under NAME: saved without asking.
MainSaveNew ==
    /\ pc = "main"
    /\ \E s \in ArgSeqs \ {<<>>}, p \in Names :
          /\ validate_input(s)
          /\ Get(presets, p) = <<>>
          /\ args' = [NoArgs EXCEPT !.sequence = s, !.preset = p]
          /\ sequence' = s
          /\ Store(p, s)
    /\ valid' = "accepted"
    /\ UNCHANGED <<answer, prompts, timeout, user_id, i, command, log, raised, exitCode>>

Confirms(reply) == Lower(Strip(reply)) \in {<<"y">>, <<>>}

\* The reply is neither "y" nor empty: save_preset returns, main returns True.
PromptDeclined ==
    /\ pc = "prompt"
    /\ \E reply \in Answers : ~Confirms(reply) /\ answer' = reply
    /\ Return(TRUE, out)
    /\ UNCHANGED <<args, presets, file, writes, prompts, valid, sequence,
                   timeout, user_id, i, command, log, raised, exitCode>>

PromptConfirmed ==
    /\ pc = "prompt"
    /\ \E reply \in Answers : Confirms(reply) /\ answer' = reply
    /\ Store(args.preset, args.sequence)
    /\ UNCHANGED <<args, prompts, valid, sequence, timeout, user_id, i,
                   command, log, raised, exitCode>>

\* No positional sequence and nothing truthy under -p NAME.
MainMissing ==
    /\ pc = "main"
    /\ \E p \in Names :
          /\ Get(presets, p) = <<>>
          /\ args' = [NoArgs EXCEPT !.preset = p]
          /\ Return(FALSE, Report("does not exist", <<p>>, {}))
    /\ UNCHANGED <<answer, presets, file, writes, prompts, valid, sequence, timeout,
                   user_id, i, command, log, raised, exitCode>>

\* The argument records with which main reaches line 178, and the sequence
\* it holds there: the (valid) positional one, or the one stored under -p.
RunArgs ==
    {a \in [list_presets : {FALSE}, delete : {<<>>}, sequence : ArgSeqs,
            preset : Names \cup {NoName}, skip_refund : BOOLEAN,
            timeout : ArgTimeouts] :
        \/ a.sequence # <<>> /\ a.preset = NoName /\ validate_input(a.sequence)
        \/ a.sequence = <<>> /\ Get(presets, a.preset) # <<>>}

Obtained(a) == IF a.sequence # <<>> THEN a.sequence ELSE Get(presets, a.preset)

\* Lines 178-179.
Stripped(a) ==
    IF a.skip_refund THEN RemovePrefix(Obtained(a), REFUND_CHAR) ELSE Obtained(a)

\* -s leaves nothing: "Empty sequence!".  The timeout is not read.
MainEmpty ==
    /\ pc = "main"
    /\ \E a \in RunArgs :
          /\ a.timeout = 0
          /\ Stripped(a) = <<>>
          /\ args' = a
          /\ valid' = IF a.sequence # <<>> THEN "accepted" ELSE valid
          /\ sequence' = Stripped(a)
    /\ Return(FALSE, Say("Empty sequence!"))
    /\ UNCHANGED <<answer, presets, file, writes, prompts, timeout, user_id, i,
                   command, log, raised, exitCode>>

\* Lines 184-193: the session is opened and process_badges is entered.
MainRun ==
    /\ pc = "main"
    /\ \E a \in RunArgs :
          /\ Stripped(a) # <<>>
          /\ args' = a
          /\ valid' = IF a.sequence # <<>> THEN "accepted" ELSE valid
          /\ sequence' = Stripped(a)
          /\ timeout' = IF a.timeout # 0 THEN a.timeout ELSE DefaultTimeout
    /\ i' = 0
    /\ pc' = "loop"
    /\ UNCHANGED <<answer, presets, file, writes, prompts, out, user_id, command, log,
                   ret, raised, exitCode>>

\* --------------------------------------------------------- process_badges
\* Line 55: seq[i] has a successor and it is a digit.
HasAmount == i < Len(sequence) - 1 /\ sequence[i + 2] \in Digits

\* Lines 53-58: look the character up, take the digit after it as the amount
\* (stepping onto it) and print the progress line, which reads seq[i] anew.
Lookup ==
    /\ pc = "loop"
    /\ i < Len(sequence)
    /\ sequence[i + 1] \in DOMAIN COMMANDS
    /\ command' = IF HasAmount
                  THEN Append(COMMANDS[sequence[i + 1]], " " \o sequence[i + 2])
                  ELSE COMMANDS[sequence[i + 1]]
    /\ i' = IF HasAmount THEN i + 1 ELSE i
    /\ out' = IF sequence[i' + 1] = REFUND_CHAR
              THEN Say("Refunding badges")
              ELSE Say("Getting " \o Join(command'))
    /\ pc' = "send_command"
    /\ UNCHANGED <<answer, args, presets, file, writes, prompts, valid, sequence,
                   timeout, user_id, log, ret, raised, exitCode>>

\* Line 54 on a character that is no key of COMMANDS: KeyError.
LookupFails ==
    /\ pc = "loop"
    /\ i < Len(sequence)
    /\ sequence[i + 1] \notin DOMAIN COMMANDS
    /\ raised' = "KeyError"
    /\ pc' = "raised"
    /\ UNCHANGED <<answer, args, presets, file, writes, prompts, out, valid, sequence,
                   timeout, user_id, i, command, log, ret, exitCode>>

\* Line 59: send(f"${command}".format(user_id=user_id)).
CommandText == Format(<<"$">> \o command, user_id)

\* Line 61: the token is chosen by seq[i], after line 57 may have moved i.
ConfirmText == IF sequence[i + 1] = REFUND_CHAR THEN "confirm" ELSE "y"

SendCommand ==
    /\ pc = "send_command"
    /\ log' = Append(log, Post(CommandText, TRUE))
    /\ pc' = "sleep_command"
    /\ UNCHANGED <<answer, args, presets, file, writes, prompts, out, valid, sequence,
                   timeout, user_id, i, command, ret, raised, exitCode>>

\* The transport raises and nothing catches it.
Abort(content) ==
    /\ log' = Append(log, Post(content, FALSE))
    /\ raised' = "TransportError"
    /\ pc' = "raised"
    /\ UNCHANGED <<answer, args, presets, file, writes, prompts, out, valid, sequence,
                   timeout, user_id, i, command, ret, exitCode>>

\* What a handler that swallowed the error around send would do.
CarryOn(content, next) ==
    /\ log' = Append(log, Post(content, FALSE))
    /\ pc' = next
    /\ UNCHANGED <<answer, args, presets, file, writes, prompts, out, valid, sequence,
                   timeout, user_id, i, command, ret, raised, exitCode>>

SendCommandFailsSwallowed ==
    /\ pc = "send_command"
    /\ CarryOn(CommandText, "sleep_command")

SendCommandFails ==
    /\ pc = "send_command"
    /\ Abort(CommandText)

\* Line 60.
SleepCommand ==
    /\ pc = "sleep_command"
    /\ log' = Append(log, Sleep(timeout))
    /\ pc' = "send_confirm"
    /\ UNCHANGED <<answer, args, presets, file, writes, prompts, out, valid, sequence,
                   timeout, user_id, i, command, ret, raised, exitCode>>

SendConfirm ==
    /\ pc = "send_confirm"
    /\ log' = Append(log, Post(ConfirmText, TRUE))
    /\ pc' = "sleep_confirm"
    /\ UNCHANGED <<answer, args, presets, file, writes, prompts, out, valid, sequence,
                   timeout, user_id, i, command, ret, raised, exitCode>>

SendConfirmFails ==
    /\ pc = "send_confirm"
    /\ Abort(ConfirmText)

\* Lines 62-63.
SleepConfirm ==
    /\ pc = "sleep_confirm"
    /\ log' = Append(log, Sleep(timeout))
    /\ i' = i + 1
    /\ pc' = "loop"
    /\ UNCHANGED <<answer, args, presets, file, writes, prompts, out, valid, sequence,
                   timeout, user_id, command, ret, raised, exitCode>>

\* The loop ends, process_badges returns, the session closes, main returns True.
Finish ==
    /\ pc = "loop"
    /\ i >= Len(sequence)
    /\ Return(TRUE, out)
    /\ UNCHANGED <<answer, args, presets, file, writes, prompts, valid, sequence,
                   timeout, user_id, i, command, log, raised, exitCode>>

\* --------------------------------------------------------------- __main__
\* sys.exit(not main())
SysExit ==
    /\ pc = "returned"
    /\ exitCode' = IF ret THEN 0 ELSE 1
    /\ pc' = "exit"
    /\ UNCHANGED <<answer, args, presets, file, writes, prompts, out, valid, sequence,
                   timeout, user_id, i, command, log, ret, raised>>

\* An exception other than KeyboardInterrupt leaves main and ends the
\* process with a traceback and status 1.
Uncaught ==
    /\ pc = "raised"
    /\ exitCode' = 1
    /\ pc' = "exit"
    /\ UNCHANGED <<answer, args, presets, file, writes, prompts, out, valid, sequence,
                   timeout, user_id, i, command, log, ret, raised>>

\* Ctrl-C while the process blocks in sleep or input: sys.exit(1).
Interrupt ==
    /\ pc \in {"sleep_command", "sleep_confirm", "prompt"}
    /\ raised' = "KeyboardInterrupt"
    /\ exitCode' = 1
    /\ pc' = "exit"
    /\ UNCHANGED <<answer, args, presets, file, writes, prompts, out, valid, sequence,
                   timeout, user_id, i, command, log, ret>>

Next ==
    \/ ShowHelp
    \/ ParseError
    \/ MainList
    \/ MainDelete
    \/ MainInvalid
    \/ MainSavePrompt
    \/ MainSaveNew
    \/ PromptDeclined
    \/ PromptConfirmed
    \/ MainMissing
    \/ MainEmpty
    \/ MainRun
    \/ Lookup
    \/ LookupFails
    \/ SendCommand
    \/ SendCommandFails
    \/ SleepCommand
    \/ SendConfirm
    \/ SendConfirmFails
    \/ SleepConfirm
    \/ Finish
    \/ SysExit
    \/ Uncaught
    \/ Interrupt

Spec == Init /\ [][Next]_vars

\* ================================================================= claims
\* Terms of the claims, stated without the operators of the model above.

\* The keys of the command table.
CommandChars == {"!", "b", "i", "g", "a", "r", "e"}

\* The text of the table entry of c for user u.
TableText(c, u) ==
    CASE c = "!" -> "kakerarefund " \o u
      [] c = "b" -> "bronze"
      [] c = "i" -> "silver"
      [] c = "g" -> "gold"
      [] c = "a" -> "sapphire"
      [] c = "r" -> "ruby"
      [] c = "e" -> "emerald"

\* validate_input has been called on the positional sequence.
Validated == valid # "unchecked"

\* C1: validate_input returns false for every string in which the refund
\* marker occurs at an index greater than 0, also when another one is at
\* index 0.
C1_MarkerAfterIndex0Rejected ==
    (Validated /\ \E k \in 2..Len(args.sequence) : args.sequence[k] = "!")
        => valid = "rejected"

LeadingDigit(s) == Len(s) > 0 /\ s[1] \in Digits
OrphanedDigit(s) ==
    \E k \in 2..Len(s) : s[k] \in Digits /\ s[k - 1] \notin CommandChars

\* C2: validate_input rejects every string with a leading digit or with a
\* digit that does not directly follow a command character.
C2_StrayDigitRejected ==
    (Validated /\ (LeadingDigit(args.sequence) \/ OrphanedDigit(args.sequence)))
        => valid = "rejected"

\* A sequence of command characters, each optionally followed by one digit.
WellFormed(s) ==
    /\ s # <<>>
    /\ \A k \in 1..Len(s) :
          \/ s[k] \in CommandChars
          \/ s[k] \in Digits /\ k > 1 /\ s[k - 1] \in CommandChars

CommandPositions(s) == {p \in 1..Len(s) : s[p] \in CommandChars}
\* The command at position p is the Rank-th command of s.
Rank(s, p) == Cardinality({q \in CommandPositions(s) : q <= p})

\* The command text of the step at position p: the table text, and the
\* digit that follows, if one does, after a blank.
StepText(s, p, u) ==
    TableText(s[p], u) \o
        (IF p < Len(s) /\ s[p + 1] \in Digits THEN " " \o s[p + 1] ELSE "")

\* process_badges has run to its end and main has returned.
Completed ==
    /\ pc \in {"returned", "exit"}
    /\ raised = "none"
    /\ sequence # <<>>
    /\ i = Len(sequence)

\* The delay main hands to process_badges.
Delay == IF args.timeout # 0 THEN args.timeout ELSE DefaultTimeout

ConfirmationTokens == {"confirm", "y"}

\* The log is, for each command character in order, four entries: the
\* command text after `prefix`, a wait, a confirmation token, a wait.
Dispatched(prefix) ==
    /\ Len(log) = 4 * Cardinality(CommandPositions(sequence))
    /\ \A p \in CommandPositions(sequence) :
          LET k == Rank(sequence, p) IN
          /\ log[4 * k - 3] = Post(prefix \o StepText(sequence, p, user_id), TRUE)
          /\ log[4 * k - 2] = Sleep(Delay)
          /\ log[4 * k - 1].op = "send"
          /\ log[4 * k - 1].ok
          /\ log[4 * k - 1].content \in ConfirmationTokens
          /\ log[4 * k] = Sleep(Delay)

\* The contents of the messages sent, in order.
Sent ==
    LET posts == SelectSeq(log, LAMBDA e : e.op = "send")
    IN  [k \in 1..Len(posts) |-> posts[k].content]

ExampleSent(prefix) ==
    sequence = Example =>
        Sent = <<prefix \o "bronze 2", "y", prefix \o "silver 2", "y",
                 prefix \o "gold 2", "y", prefix \o "ruby 4", "y",
                 prefix \o "silver 4", "y">>

\* C3 as stated: for a sequence of command characters each optionally
\* followed by a digit, process_badges dispatches per command character the
\* table text (with the digit and the user id), then the confirmation
\* token, each followed by a wait of the delay; the example sequence gives
\* bronze 2, y, silver 2, y, gold 2, y, ruby 4, y, silver 4, y.
C3_DispatchesTableText ==
    (Completed /\ WellFormed(sequence)) => (Dispatched("") /\ ExampleSent(""))

\* C3 amended: the same, every command text being sent after the command
\* prefix "$" of line 59.
C3_DispatchesPrefixedText ==
    (Completed /\ WellFormed(sequence)) => (Dispatched("$") /\ ExampleSent("$"))

\* The help text's example has run to its end and the process exited 0.
C3_Witness ==
    /\ Completed
    /\ sequence = Example
    /\ exitCode = 0
    /\ Len(log) = 20

\* The command character of the step whose confirmation was just sent.
StepChar == IF sequence[i + 1] \in Digits THEN sequence[i] ELSE sequence[i + 1]

\* C4: the second message of a step is "confirm" exactly when the step's
\* command character is the refund marker, with or without a digit after it.
C4_ConfirmIffRefund ==
    pc = "sleep_confirm" =>
        (log[Len(log)].content = "confirm" <=> StepChar = "!")

\* The occurrences in names that delete_presets does not find: the name is
\* not in the store, or an earlier occurrence already removed it.
MissingIndexes(names, store) ==
    {k \in 1..Len(names) :
        names[k] \notin DOMAIN store \/ \E j \in 1..(k - 1) : names[j] = names[k]}
MissingNames(names, store) ==
    LET idx == MissingIndexes(names, store) IN
    [n \in 1..Cardinality(idx) |->
        names[CHOOSE k \in idx : Cardinality({j \in idx : j <= k}) = n]]
Without(store, gone) == [n \in DOMAIN store \ gone |-> store[n]]

\* C5: delete_presets rewrites the file and returns success only if every
\* listed name was found; otherwise the found names leave the in-memory
\* store, the missing ones are reported, failure is returned and the file is
\* not rewritten.
C5_DeleteAllOrNothing ==
    [][(pc = "main" /\ args'.delete # <<>>) =>
          LET names == args'.delete
              missing == MissingNames(names, presets)
              found == {names[k] : k \in 1..Len(names)} \cap DOMAIN presets
          IN  /\ presets' = Without(presets, found)
              /\ IF missing = <<>>
                 THEN /\ ret'
                      /\ writes' = writes + 1
                      /\ file' = presets'
                 ELSE /\ ~ret'
                      /\ writes' = writes
                      /\ file' = file
                      /\ out'.msg = "does not exist"
                      /\ out'.names = missing]_vars

\* -d with one name found and one missing: the store lost a name, failure
\* was returned and config.json still has every preset.
C5_Witness ==
    /\ pc = "returned"
    /\ Len(args.delete) = 2
    /\ ~ret
    /\ writes = 0
    /\ file # presets
    /\ Len(out.names) = 1

\* The replies that give the confirmation save_preset asks for.
ConfirmingReplies == {<<>>, <<"y">>, <<"Y">>, <<" ", "y", " ">>}

\* C6: for every name already in the preset store, whatever is stored under
\* it, save_preset prompts, and without confirmation the stored sequence is
\* unchanged and no file is written.
C6_OverwriteOnlyConfirmed ==
    [][/\ (pc = "main" /\ valid' = "accepted" /\ args'.preset \in DOMAIN presets
            /\ args'.sequence # <<>>)
          => (pc' = "prompt" /\ prompts' = prompts + 1
              /\ presets' = presets /\ writes' = writes)
       /\ (pc = "prompt" /\ pc' = "returned" /\ answer' \notin ConfirmingReplies)
          => (presets' = presets /\ writes' = writes /\ file' = file)]_vars

NoDispatch == \A k \in 1..Len(log) : log[k].op # "send"

\* C7: whether the sequence is the positional argument or comes from a
\* named preset, if it fails validate_input nothing is dispatched and the
\* exit status is not 0.
C7_OnlyValidatedSequencesRun ==
    (/\ pc # "main"
     /\ args.sequence # <<>> \/ args.preset # NoName
     /\ ~validate_input(Obtained(args)))
        => (NoDispatch /\ exitCode # 0)

\* A dispatch has failed with a transport error.
HasFailed == \E k \in 1..Len(log) : log[k].op = "send" /\ ~log[k].ok

\* C8: once a dispatch has failed, nothing more is dispatched (no wait
\* either), the error keeps propagating and the process does not exit 0.
C8_NoRetryNoResume ==
    [][HasFailed =>
          (log' = log /\ raised' = "TransportError" /\ exitCode' # 0)]_vars

\* A command (not a confirmation) failed with more of the sequence to go,
\* and the process has exited with status 1.
C8_Witness ==
    /\ HasFailed
    /\ pc = "exit"
    /\ exitCode = 1
    /\ log[Len(log)].content \notin ConfirmationTokens
    /\ i + 1 < Len(sequence)
    /\ Len(log) > 1

\* C9: on every non-empty string that validate_input accepts, process_badges
\* never looks up a character that is not a key of the command table.
C9_AcceptedSequencesLookUpKeys ==
    (sequence # <<>> /\ validate_input(sequence)) => raised # "KeyError"

\* C10: with -s and a positional sequence that validate_input accepted, the
\* sequence handed to process_badges has no refund marker and no refund is
\* confirmed.
C10_SkipRefundSendsNoRefund ==
    (args.skip_refund /\ args.sequence # <<>> /\ valid = "accepted")
        => (/\ \A k \in 1..Len(sequence) : sequence[k] # "!"
            /\ \A k \in 1..Len(log) : log[k].content # "confirm")

====
